---- MODULE Spec2Model ----
(***************************************************************************)
(* A model of pie_chart.py: the StockVisualizer class and main().          *)
(*                                                                         *)
(* A CSV field is modelled by its text: <<>> is the empty field (which     *)
(* pandas reads as a missing value) and <<v>> a field holding v.  A        *)
(* Product is identified by the number of the file row it stands in.       *)
(* The explode offset 0.05 is kept in hundredths.  The mean printed by     *)
(* print_statistics is not modelled (no property below reads it).          *)
(***************************************************************************)
EXTENDS Integers, Sequences, FiniteSets, TLC

VARIABLES
    file,         \* the CSV file at csv_path, as the environment provides it
    df,           \* the slot self.df
    fig,          \* the figure main holds (the arguments given to ax.pie)
    figOpen,      \* pyplot holds an open figure
    pc,           \* main's position ("obj": the object is driven call by call)
    exc,          \* the exception in flight in main
    ret,          \* main's return value: <<>> while none is set
    answer,       \* the text typed at the save prompt
    fileWritten,  \* the chart file exists on disk
    cleanups,     \* how many times cleanup has run
    report,       \* what print_statistics printed last
    log           \* the calls made so far, each with its outcome

vars == <<file, df, fig, figOpen, pc, exc, ret, answer, fileWritten,
          cleanups, report, log>>

(***************************** bounds ***************************************)

MaxRows == 3
MaxLong == 23
MaxObjRows == 2
MaxCalls == 3

(***************************** constants ************************************)

REQUIRED_COLUMNS == {"Product", "Stock"}

COLORS == <<"#FF6B6B", "#4ECDC4", "#45B7D1", "#96CEB4", "#FFEAA7",
            "#DDA0DD", "#98D8C8", "#F7DC6F", "#BB8FCE", "#85C1E9">>

EXPLODE_THRESHOLD == 30

ExplodeOffset == 5

(***************************** inputs ***************************************)

StockVals == {5, 29, 30}

StockCells == {<<>>} \cup {<<v>> : v \in StockVals}

AllColumns == {"Product", "Stock", "Extra"}

\* Every table of n rows: each Product present or empty, each Stock a value
\* or empty.
TableRows(n) ==
    { [i \in 1..n |-> [Product |-> IF c[i][1] THEN <<i>> ELSE <<>>,
                       Stock   |-> c[i][2]]] :
        c \in [1..n -> BOOLEAN \X StockCells] }

\* One complete table of n rows whose stocks straddle the threshold.
LongRows(n) ==
    [i \in 1..n |-> [Product |-> <<i>>, Stock |-> <<25 + (i % 10)>>]]

TableFiles(maxRows) ==
    { [kind |-> "table", cols |-> c, rows |-> r] :
        c \in {REQUIRED_COLUMNS, AllColumns},
        r \in UNION { TableRows(n) : n \in 0..maxRows } }

LongFiles ==
    { [kind |-> "table", cols |-> REQUIRED_COLUMNS, rows |-> LongRows(n)] :
        n \in (MaxRows + 1)..MaxLong }

SchemaFiles ==
    { [kind |-> "table", cols |-> c, rows |-> <<>>] :
        c \in { s \in SUBSET AllColumns : ~(REQUIRED_COLUMNS \subseteq s) } }

OtherFiles ==
    { [kind |-> k, cols |-> {}, rows |-> <<>>] :
        k \in {"missing", "empty", "malformed", "unreadable"} }

Files == TableFiles(MaxRows) \cup LongFiles \cup SchemaFiles \cup OtherFiles

ObjFiles == TableFiles(MaxObjRows) \cup SchemaFiles \cup OtherFiles

Answers == { <<>>, <<"y">>, <<"Y">>, <<"n">>, <<"N">>, <<"y", "e", "s">> }

(***************************** values ***************************************)

NoDf == [state |-> "None", cols |-> {}, rows |-> <<>>]

NoFig == [state |-> "None", labels |-> <<>>, values |-> <<>>,
          colors |-> <<>>, explode |-> <<>>, legend |-> <<>>]

NoReport == [total |-> 0, count |-> 0, highest |-> <<>>, lowest |-> <<>>]

Call(op, r, e, io) == [op |-> op, ret |-> r, exc |-> e, io |-> io]

Min(a, b) == IF a < b THEN a ELSE b

RECURSIVE Repeat(_, _)
\* Python's  s * k  on a list
Repeat(s, k) == IF k <= 0 THEN <<>> ELSE s \o Repeat(s, k - 1)

\* Python's  s[:n]  on a list (a slice clips at the end)
Slice(s, n) == SubSeq(s, 1, Min(n, Len(s)))

RECURSIVE SumSeq(_)
SumSeq(s) == IF s = <<>> THEN 0 ELSE Head(s) + SumSeq(Tail(s))

LowerChar(c) ==
    IF c = "Y" THEN "y" ELSE IF c = "N" THEN "n" ELSE c

\* str.lower()
Lower(s) == [i \in DOMAIN s |-> LowerChar(s[i])]

(***************************** StockVisualizer ******************************)

\* The exception classes that derive from Exception (KeyboardInterrupt does
\* not: it derives from BaseException).
ExceptionClasses ==
    {"OSError", "ValueError", "IndexError", "AttributeError", "EOFError",
     "EmptyDataError", "ParserError"}

\* pd.read_csv(path, usecols=['Product','Stock'],
\*             dtype={'Product': 'string', 'Stock': 'int32'})
\* on a path that exists.  A header without a usecols column raises
\* ValueError; an empty Stock field cannot be held by an int32 column and
\* raises ValueError; an empty Product field is read as a missing value.
\* The frame keeps the usecols columns and numbers its rows from 0.
read_csv(f) ==
    IF f.kind = "unreadable" THEN [exc |-> "OSError", cols |-> {}, rows |-> <<>>]
    ELSE IF f.kind = "empty" THEN [exc |-> "EmptyDataError", cols |-> {}, rows |-> <<>>]
    ELSE IF f.kind = "malformed" THEN [exc |-> "ParserError", cols |-> {}, rows |-> <<>>]
    ELSE IF ~(REQUIRED_COLUMNS \subseteq f.cols)
        THEN [exc |-> "ValueError", cols |-> {}, rows |-> <<>>]
    ELSE IF \E i \in DOMAIN f.rows : f.rows[i].Stock = <<>>
        THEN [exc |-> "ValueError", cols |-> {}, rows |-> <<>>]
    ELSE [exc  |-> "none",
          cols |-> f.cols \cap REQUIRED_COLUMNS,
          rows |-> [i \in DOMAIN f.rows |->
                      [idx     |-> i - 1,
                       Product |-> f.rows[i].Product,
                       Stock   |-> f.rows[i].Stock[1]]]]

\* A row dropna keeps: no missing value in it.
NotNA(r) == r.Product # <<>>

\* df.dropna(inplace=True): the rows kept keep their index labels
dropna(rows) == SelectSeq(rows, NotNA)

\* An except clause of load_data that leaves ValueError out.
CaughtByLoad_NoValueError == {"EmptyDataError", "ParserError"}

\* except (pd.errors.EmptyDataError, pd.errors.ParserError, ValueError)
CaughtByLoad == {"EmptyDataError", "ParserError", "ValueError"}

\* StockVisualizer.load_data: the value returned ("raise" when it raises),
\* the exception, the slot self.df afterwards, and whether read_csv was
\* called.
load_data(d, f) ==
    IF f.kind = "missing"
    THEN [ret |-> "False", exc |-> "none", df |-> d, io |-> FALSE]
    ELSE LET r == read_csv(f) IN
        IF r.exc \in CaughtByLoad
        THEN [ret |-> "False", exc |-> "none", df |-> d, io |-> TRUE]
        ELSE IF r.exc # "none"
        THEN [ret |-> "raise", exc |-> r.exc, df |-> d, io |-> TRUE]
        ELSE IF ~(REQUIRED_COLUMNS \subseteq r.cols)
        THEN [ret |-> "False", exc |-> "none", io |-> TRUE,
              df |-> [state |-> "set", cols |-> r.cols, rows |-> r.rows]]
        ELSE LET kept == dropna(r.rows) IN
            [ret |-> IF kept = <<>> THEN "False" ELSE "True",
             exc |-> "none", io |-> TRUE,
             df  |-> [state |-> "set", cols |-> r.cols, rows |-> kept]]

\* An explode whose comparison includes the threshold.
calculate_explode_Inclusive(stock_values) ==
    [i \in DOMAIN stock_values |->
        IF stock_values[i] <= EXPLODE_THRESHOLD THEN ExplodeOffset ELSE 0]

\* np.where(stock_values < EXPLODE_THRESHOLD, 0.05, 0)
calculate_explode(stock_values) ==
    [i \in DOMAIN stock_values |->
        IF stock_values[i] < EXPLODE_THRESHOLD THEN ExplodeOffset ELSE 0]

\* A colour list without the extra repetition.
colors_cycle_NoExtra(total_products) ==
    Repeat(COLORS, total_products \div Len(COLORS))

\* colors_cycle = COLORS * ((total_products // len(COLORS)) + 1)
colors_cycle(total_products) ==
    Repeat(COLORS, (total_products \div Len(COLORS)) + 1)

\* StockVisualizer.create_visualization: io says whether the figure was
\* built (plt.subplots and ax.pie were reached).
create_visualization(d) ==
    IF d.state = "deleted"
    THEN [ret |-> "raise", exc |-> "AttributeError", fig |-> NoFig, io |-> FALSE]
    ELSE IF d.state = "None"
    THEN [ret |-> "None", exc |-> "none", fig |-> NoFig, io |-> FALSE]
    ELSE LET products       == [i \in DOMAIN d.rows |-> d.rows[i].Product]
             stock_values   == [i \in DOMAIN d.rows |-> d.rows[i].Stock]
             explode_values == calculate_explode(stock_values)
             total_products == Len(products)
         IN [ret |-> "fig", exc |-> "none", io |-> TRUE,
             fig |-> [state   |-> "fig",
                      labels  |-> products,
                      values  |-> stock_values,
                      colors  |-> Slice(colors_cycle(total_products), total_products),
                      explode |-> explode_values,
                      legend  |-> [i \in DOMAIN products |->
                                     <<products[i], stock_values[i]>>]]]

\* Series.idxmax(): the index label of the first row holding the maximum
idxmax(rows) ==
    LET i == CHOOSE i \in DOMAIN rows :
                 /\ \A j \in DOMAIN rows : rows[j].Stock <= rows[i].Stock
                 /\ \A j \in 1..(i - 1) : rows[j].Stock < rows[i].Stock
    IN rows[i].idx

\* Series.idxmin(): the index label of the first row holding the minimum
idxmin(rows) ==
    LET i == CHOOSE i \in DOMAIN rows :
                 /\ \A j \in DOMAIN rows : rows[j].Stock >= rows[i].Stock
                 /\ \A j \in 1..(i - 1) : rows[j].Stock > rows[i].Stock
    IN rows[i].idx

\* (products.iloc[k], stock_values.iloc[k]): the row at POSITION k, from 0
iloc(rows, k) == <<rows[k + 1].Product, rows[k + 1].Stock>>

\* StockVisualizer.print_statistics.  idxmax of an empty column raises
\* ValueError; iloc past the last position raises IndexError.
print_statistics(d) ==
    IF d.state = "deleted"
    THEN [ret |-> "raise", exc |-> "AttributeError", report |-> NoReport]
    ELSE IF d.state = "None"
    THEN [ret |-> "None", exc |-> "none", report |-> NoReport]
    ELSE IF d.rows = <<>>
    THEN [ret |-> "raise", exc |-> "ValueError", report |-> NoReport]
    ELSE LET max_idx == idxmax(d.rows)
             min_idx == idxmin(d.rows)
             total   == SumSeq([i \in DOMAIN d.rows |-> d.rows[i].Stock])
         IN IF max_idx >= Len(d.rows) \/ min_idx >= Len(d.rows)
            THEN [ret |-> "raise", exc |-> "IndexError", report |-> NoReport]
            ELSE [ret |-> "None", exc |-> "none",
                  report |-> [total   |-> total,
                              count   |-> Len(d.rows),
                              highest |-> iloc(d.rows, max_idx),
                              lowest  |-> iloc(d.rows, min_idx)]]

\* A save_chart without its try/except.
save_chart_NoCatch(w) ==
    IF w = "ok"
    THEN [ret |-> "True", exc |-> "none"]
    ELSE [ret |-> "raise", exc |-> w]

\* StockVisualizer.save_chart, where w is what fig.savefig does: "ok", or
\* the exception it raises.
save_chart(w) ==
    IF w = "ok"
    THEN [ret |-> "True", exc |-> "none"]
    ELSE IF w \in ExceptionClasses
    THEN [ret |-> "False", exc |-> "none"]
    ELSE [ret |-> "raise", exc |-> w]

\* A cleanup whose test is inverted: it never deletes a loaded dataset.
cleanup_KeepsDf(d) ==
    IF d.state = "deleted"
    THEN [exc |-> "AttributeError", df |-> d]
    ELSE [exc |-> "none", df |-> d]

\* StockVisualizer.cleanup: plt.close('all'), then  del self.df  unless it
\* is None.  Reading a slot that was deleted raises AttributeError.
cleanup(d) ==
    IF d.state = "deleted"
    THEN [exc |-> "AttributeError", df |-> d]
    ELSE IF d.state # "None"
    THEN [exc |-> "none", df |-> [state |-> "deleted", cols |-> {}, rows |-> <<>>]]
    ELSE [exc |-> "none", df |-> d]

(***************************** main *****************************************)

\* A prompt that saves unless the answer is no.
wantsSave_DefaultYes(a) == Lower(a) # <<"n">>

\* if input("\nSave chart? (y/N): ").lower() == 'y'
wantsSave(a) == Lower(a) = <<"y">>

\* A main without its  except Exception  clause.
handler_InterruptOnly(e) ==
    IF e = "KeyboardInterrupt" THEN "KeyboardInterrupt" ELSE "uncaught"

\* Which except clause of main takes exception e.
handler(e) ==
    IF e = "KeyboardInterrupt" THEN "KeyboardInterrupt"
    ELSE IF e \in ExceptionClasses THEN "Exception"
    ELSE "uncaught"

Init ==
    /\ file \in Files
    /\ df = NoDf
    /\ fig = NoFig
    /\ figOpen = FALSE
    /\ pc = "load"
    /\ exc = "none"
    /\ ret = <<>>
    /\ answer = <<>>
    /\ fileWritten = FALSE
    /\ cleanups = 0
    /\ report = NoReport
    /\ log = <<>>

\* if not visualizer.load_data(): return 1
MainLoad ==
    /\ pc = "load"
    /\ LET r == load_data(df, file) IN
        /\ df' = r.df
        /\ log' = Append(log, Call("load_data", r.ret, r.exc, r.io))
        /\ IF r.exc # "none"
           THEN exc' = r.exc /\ pc' = "except" /\ ret' = ret
           ELSE IF r.ret = "False"
           THEN exc' = exc /\ pc' = "finally" /\ ret' = <<1>>
           ELSE exc' = exc /\ pc' = "render" /\ ret' = ret
    /\ UNCHANGED <<file, fig, figOpen, answer, fileWritten, cleanups, report>>

\* fig = visualizer.create_visualization(); if fig is None: return 1
MainRender ==
    /\ pc = "render"
    /\ LET r == create_visualization(df) IN
        /\ fig' = r.fig
        /\ figOpen' = r.io
        /\ log' = Append(log, Call("create_visualization", r.ret, r.exc, r.io))
        /\ IF r.exc # "none"
           THEN exc' = r.exc /\ pc' = "except" /\ ret' = ret
           ELSE IF r.ret = "None"
           THEN exc' = exc /\ pc' = "finally" /\ ret' = <<1>>
           ELSE exc' = exc /\ pc' = "stats" /\ ret' = ret
    /\ UNCHANGED <<file, df, answer, fileWritten, cleanups, report>>

\* visualizer.print_statistics()
MainStats ==
    /\ pc = "stats"
    /\ LET r == print_statistics(df) IN
        /\ report' = r.report
        /\ log' = Append(log, Call("print_statistics", r.ret, r.exc, FALSE))
        /\ IF r.exc # "none"
           THEN exc' = r.exc /\ pc' = "except"
           ELSE exc' = exc /\ pc' = "show"
    /\ UNCHANGED <<file, df, fig, figOpen, ret, answer, fileWritten, cleanups>>

\* plt.show(): blocks until the windows are closed (closing a window takes
\* its figure from pyplot; a backend without windows returns at once and
\* leaves it), or is interrupted.
MainShow ==
    /\ pc = "show"
    /\ \/ \E open \in BOOLEAN :
            /\ figOpen' = open
            /\ log' = Append(log, Call("show", "None", "none", TRUE))
            /\ pc' = "prompt"
            /\ exc' = exc
       \/ /\ figOpen' = figOpen
          /\ log' = Append(log, Call("show", "raise", "KeyboardInterrupt", TRUE))
          /\ pc' = "except"
          /\ exc' = "KeyboardInterrupt"
    /\ UNCHANGED <<file, df, fig, ret, answer, fileWritten, cleanups, report>>

\* input("\nSave chart? (y/N): "): an answer, an interrupt, or end of input
MainPrompt ==
    /\ pc = "prompt"
    /\ \/ \E a \in Answers :
            /\ answer' = a
            /\ log' = Append(log, Call("input", "str", "none", TRUE))
            /\ exc' = exc
            /\ IF wantsSave(a)
               THEN pc' = "save" /\ ret' = ret
               ELSE pc' = "finally" /\ ret' = <<0>>
       \/ \E e \in {"KeyboardInterrupt", "EOFError"} :
            /\ answer' = answer
            /\ log' = Append(log, Call("input", "raise", e, TRUE))
            /\ exc' = e
            /\ pc' = "except"
            /\ ret' = ret
    /\ UNCHANGED <<file, df, fig, figOpen, fileWritten, cleanups, report>>

\* visualizer.save_chart(fig); return 0
MainSave ==
    /\ pc = "save"
    /\ \E w \in {"ok", "OSError"} :
        LET r == save_chart(w) IN
        /\ fileWritten' = (w = "ok")
        /\ log' = Append(log, Call("save_chart", r.ret, r.exc, TRUE))
        /\ IF r.exc # "none"
           THEN exc' = r.exc /\ pc' = "except" /\ ret' = ret
           ELSE exc' = exc /\ pc' = "finally" /\ ret' = <<0>>
    /\ UNCHANGED <<file, df, fig, figOpen, answer, cleanups, report>>

\* except KeyboardInterrupt: return 1 / except Exception: return 1; an
\* exception neither clause takes goes on through the finally clause.
MainExcept ==
    /\ pc = "except"
    /\ IF handler(exc) = "uncaught"
       THEN exc' = exc /\ ret' = ret
       ELSE exc' = "none" /\ ret' = <<1>>
    /\ pc' = "finally"
    /\ UNCHANGED <<file, df, fig, figOpen, answer, fileWritten, cleanups,
                   report, log>>

\* finally: visualizer.cleanup(), and main returns (or the exception in
\* flight leaves main)
MainFinally ==
    /\ pc = "finally"
    /\ LET r == cleanup(df) IN
        /\ df' = r.df
        /\ exc' = IF r.exc # "none" THEN r.exc ELSE exc
        /\ log' = Append(log, Call("cleanup", IF r.exc # "none" THEN "raise" ELSE "None",
                                   r.exc, FALSE))
    /\ figOpen' = FALSE
    /\ cleanups' = cleanups + 1
    /\ pc' = "done"
    /\ UNCHANGED <<file, fig, ret, answer, fileWritten, report>>

Next ==
    \/ MainLoad
    \/ MainRender
    \/ MainStats
    \/ MainShow
    \/ MainPrompt
    \/ MainSave
    \/ MainExcept
    \/ MainFinally

Spec == Init /\ [][Next]_vars

(***************************** the object, call by call *********************)

InitObj ==
    /\ file \in ObjFiles
    /\ df = NoDf
    /\ fig = NoFig
    /\ figOpen = FALSE
    /\ pc = "obj"
    /\ exc = "none"
    /\ ret = <<>>
    /\ answer = <<>>
    /\ fileWritten = FALSE
    /\ cleanups = 0
    /\ report = NoReport
    /\ log = <<>>

ObjLoadData ==
    /\ pc = "obj" /\ Len(log) < MaxCalls
    /\ LET r == load_data(df, file) IN
        /\ df' = r.df
        /\ exc' = r.exc
        /\ log' = Append(log, Call("load_data", r.ret, r.exc, r.io))
    /\ UNCHANGED <<file, fig, figOpen, pc, ret, answer, fileWritten, cleanups, report>>

ObjCreateVisualization ==
    /\ pc = "obj" /\ Len(log) < MaxCalls
    /\ LET r == create_visualization(df) IN
        /\ fig' = r.fig
        /\ figOpen' = (figOpen \/ r.io)
        /\ exc' = r.exc
        /\ log' = Append(log, Call("create_visualization", r.ret, r.exc, r.io))
    /\ UNCHANGED <<file, df, pc, ret, answer, fileWritten, cleanups, report>>

ObjPrintStatistics ==
    /\ pc = "obj" /\ Len(log) < MaxCalls
    /\ LET r == print_statistics(df) IN
        /\ report' = r.report
        /\ exc' = r.exc
        /\ log' = Append(log, Call("print_statistics", r.ret, r.exc, FALSE))
    /\ UNCHANGED <<file, df, fig, figOpen, pc, ret, answer, fileWritten, cleanups>>

ObjCleanup ==
    /\ pc = "obj" /\ Len(log) < MaxCalls
    /\ LET r == cleanup(df) IN
        /\ df' = r.df
        /\ exc' = r.exc
        /\ log' = Append(log, Call("cleanup", IF r.exc # "none" THEN "raise" ELSE "None",
                                   r.exc, FALSE))
    /\ figOpen' = FALSE
    /\ cleanups' = cleanups + 1
    /\ UNCHANGED <<file, fig, pc, ret, answer, fileWritten, report>>

NextObj ==
    \/ ObjLoadData
    \/ ObjCreateVisualization
    \/ ObjPrintStatistics
    \/ ObjCleanup

SpecObj == InitObj /\ [][NextObj]_vars

(***************************** properties ***********************************)

Made(op) == { k \in DOMAIN log : log[k].op = op }

Completed(op) == \E k \in Made(op) : log[k].exc = "none"

\* C1: when main has ended it has returned 0 or 1 and no exception has left
\* it; it has returned 0 exactly when load_data returned True,
\* create_visualization returned a figure, and print_statistics, plt.show
\* and the save prompt each completed without an exception.
C1_ExitStatus ==
    pc = "done" =>
        /\ exc = "none"
        /\ ret \in {<<0>>, <<1>>}
        /\ ret = <<0>> <=>
              /\ \E k \in Made("load_data") : log[k].ret = "True"
              /\ \E k \in Made("create_visualization") : log[k].ret = "fig"
              /\ Completed("print_statistics")
              /\ Completed("show")
              /\ Completed("input")

\* main has ended with status 1 after an interrupt at the save prompt
C1_Witness ==
    /\ pc = "done"
    /\ ret = <<1>>
    /\ \E k \in Made("input") : log[k].exc = "KeyboardInterrupt"

\* C2: cleanup has not run while main is still running, and main can always
\* go on until it ends; when main has ended cleanup has run exactly once,
\* no figure is open and the visualizer holds no dataset.
C2_CleanupOnce ==
    /\ pc # "done" => cleanups = 0 /\ ENABLED Next
    /\ pc = "done" => cleanups = 1 /\ ~figOpen /\ df.state # "set"

\* main has ended on an error path taken after the figure was made
C2_Witness ==
    /\ pc = "done"
    /\ ret = <<1>>
    /\ fig.state = "fig"
    /\ df.state = "deleted"
    /\ cleanups = 1

BothPresent(r) == r.Product # <<>> /\ r.Stock # <<>>

CompleteRows == SelectSeq(file.rows, BothPresent)

\* C3: for a table with the columns Product and Stock and at least one row
\* with both fields present, load_data returns True and the dataset is
\* exactly the rows with both fields present, in file order.
C3_LoadKeepsCompleteRows ==
    ( /\ Len(log) = 1
      /\ log[1].op = "load_data"
      /\ file.kind = "table"
      /\ REQUIRED_COLUMNS \subseteq file.cols
      /\ CompleteRows # <<>> )
    => /\ log[1].ret = "True"
       /\ df.state = "set"
       /\ Len(df.rows) = Len(CompleteRows)
       /\ \A i \in DOMAIN df.rows :
            /\ df.rows[i].Product = CompleteRows[i].Product
            /\ df.rows[i].Stock = CompleteRows[i].Stock[1]

\* The load failures the claim lists: no file, a required column missing,
\* an empty or unparsable file, no row with both fields present.
ListedLoadFailure ==
    \/ file.kind \in {"missing", "empty", "malformed"}
    \/ /\ file.kind = "table"
       /\ \/ ~(REQUIRED_COLUMNS \subseteq file.cols)
          \/ CompleteRows = <<>>

\* C4: on each of the listed load failures load_data returns False and
\* raises nothing, and for a path that does not exist it does not read.
C4_LoadFailsByReturn ==
    \A k \in Made("load_data") :
        ListedLoadFailure =>
            /\ log[k].ret = "False"
            /\ log[k].exc = "none"
            /\ file.kind = "missing" => ~log[k].io

\* load_data has returned False for a file that lacks Stock and has another
\* column
C4_Witness ==
    /\ file.kind = "table"
    /\ file.cols = {"Product", "Extra"}
    /\ \E k \in Made("load_data") : log[k].ret = "False" /\ log[k].io

\* The first record, in dataset order, whose Stock is the greatest
FirstHighest ==
    LET i == CHOOSE i \in DOMAIN df.rows :
                 /\ \A j \in DOMAIN df.rows : df.rows[j].Stock <= df.rows[i].Stock
                 /\ \A j \in DOMAIN df.rows : j < i => df.rows[j].Stock # df.rows[i].Stock
    IN <<df.rows[i].Product, df.rows[i].Stock>>

\* The first record, in dataset order, whose Stock is the least
FirstLowest ==
    LET i == CHOOSE i \in DOMAIN df.rows :
                 /\ \A j \in DOMAIN df.rows : df.rows[j].Stock >= df.rows[i].Stock
                 /\ \A j \in DOMAIN df.rows : j < i => df.rows[j].Stock # df.rows[i].Stock
    IN <<df.rows[i].Product, df.rows[i].Stock>>

\* C5: on the dataset of a successful load, print_statistics raises nothing
\* and reports as Highest the first record with the greatest Stock and as
\* Lowest the first record with the least Stock.
C5_StatisticsExtremes ==
    ( /\ Len(log) = 3
      /\ log[1].op = "load_data" /\ log[1].ret = "True"
      /\ log[3].op = "print_statistics" )
    => /\ log[3].exc = "none"
       /\ report.highest = FirstHighest
       /\ report.lowest = FirstLowest

\* C6: save_chart raises nothing; it returns True exactly when the file was
\* written and False otherwise; and main, once it has called save_chart,
\* ends with status 0.
C6_SaveNeverRaises ==
    \A k \in Made("save_chart") :
        /\ log[k].exc = "none"
        /\ log[k].ret = (IF fileWritten THEN "True" ELSE "False")
        /\ pc = "done" => ret = <<0>> /\ exc = "none"

\* main has ended with status 0 after a save that failed
C6_Witness ==
    /\ pc = "done"
    /\ ret = <<0>>
    /\ ~fileWritten
    /\ \E k \in Made("save_chart") : log[k].ret = "False"

\* C7: a file is written only after load, render, statistics and display
\* have completed and the prompt was answered y or Y; after any other answer
\* main ends with status 0, save_chart was not called and no file exists.
C7_SaveOnlyOnYes ==
    /\ Made("save_chart") # {} =>
          /\ Len(log) >= 6
          /\ log[1].op = "load_data" /\ log[1].ret = "True"
          /\ log[2].op = "create_visualization" /\ log[2].ret = "fig"
          /\ log[3].op = "print_statistics" /\ log[3].exc = "none"
          /\ log[4].op = "show" /\ log[4].exc = "none"
          /\ log[5].op = "input" /\ log[5].exc = "none"
          /\ log[6].op = "save_chart"
          /\ answer \in {<<"y">>, <<"Y">>}
    /\ fileWritten => Made("save_chart") # {}
    /\ (pc = "done" /\ Completed("input") /\ answer \notin {<<"y">>, <<"Y">>}) =>
          /\ Made("save_chart") = {}
          /\ ~fileWritten
          /\ ret = <<0>>

\* main has ended having written the file after the answer Y
C7_Witness ==
    /\ pc = "done"
    /\ fileWritten
    /\ answer = <<"Y">>

\* C8: the figure has one explode offset per record, in dataset order: 0.05
\* where Stock < 30 and 0 where Stock >= 30 (29 gives 0.05, 30 gives 0).
C8_ExplodeThreshold ==
    fig.state = "fig" =>
        /\ Len(fig.explode) = Len(fig.values)
        /\ df.state = "set" =>
              /\ Len(fig.values) = Len(df.rows)
              /\ \A i \in DOMAIN df.rows : fig.values[i] = df.rows[i].Stock
        /\ \A i \in DOMAIN fig.values :
              /\ fig.values[i] < 30 => fig.explode[i] = 5
              /\ fig.values[i] >= 30 => fig.explode[i] = 0
              /\ fig.values[i] = 29 => fig.explode[i] = 5
              /\ fig.values[i] = 30 => fig.explode[i] = 0

\* a figure over records with Stock 29 and Stock 30
C8_Witness ==
    /\ fig.state = "fig"
    /\ \E i, j \in DOMAIN fig.values :
          /\ fig.values[i] = 29 /\ fig.explode[i] = 5
          /\ fig.values[j] = 30 /\ fig.explode[j] = 0

\* C9: the pie is given exactly one colour per record, the i-th record
\* (from 0) the palette entry i mod 10; so the 1st, 11th and 21st records
\* share a colour.
C9_ColorsCycle ==
    fig.state = "fig" =>
        /\ Len(fig.colors) = Len(fig.values)
        /\ \A i \in DOMAIN fig.colors : fig.colors[i] = COLORS[((i - 1) % 10) + 1]
        /\ Len(fig.colors) >= 21 =>
              fig.colors[1] = fig.colors[11] /\ fig.colors[11] = fig.colors[21]

\* a figure over 23 records whose 1st, 11th and 21st colours agree
C9_Witness ==
    /\ fig.state = "fig"
    /\ Len(fig.values) = 23
    /\ Len(fig.colors) = 23
    /\ fig.colors[1] = fig.colors[11]
    /\ fig.colors[21] = fig.colors[1]
    /\ fig.colors[1] # fig.colors[2]

\* No dataset is loaded after the calls of l: no load_data or cleanup yet,
\* or the last of them is a cleanup or a load_data that returned False.
NoDatasetAfter(l) ==
    LET ks == { k \in DOMAIN l : l[k].op \in {"load_data", "cleanup"} } IN
    \/ ks = {}
    \/ LET m == CHOOSE k \in ks : \A j \in ks : j <= k IN
       l[m].op = "cleanup" \/ l[m].ret = "False"

\* C10: a create_visualization called while no dataset is loaded returns
\* None, raises nothing and does not build a figure.
C10_NoDatasetReturnsNone ==
    \A k \in Made("create_visualization") :
        NoDatasetAfter(SubSeq(log, 1, k - 1)) =>
            /\ log[k].ret = "None"
            /\ log[k].exc = "none"
            /\ ~log[k].io

====
